---------------------------- MODULE Spec2Model ----------------------------
(***************************************************************************)
(* A model of the FRACTRAN interpreter fractran-lib-rs.                    *)
(*                                                                         *)
(*   src/src/math.rs        first_n_primes (Sieve of Eratosthenes)         *)
(*   src/src/lib.rs         MAX_REGS, PRIMES                               *)
(*   src/src/primebasis.rs  PrimeBasis: try_new, value, Mul, Div, Divides  *)
(*   src/src/frac.rs        Fraction::new, Fraction::exec, StepResult     *)
(*   src/src/program.rs     Program, Evaluator, lazy_exec,                 *)
(*                          exec_to_completion                             *)
(*                                                                         *)
(* The code is generic over the number type T; the two instantiations the  *)
(* repository uses, u64 and PrimeBasis, are modelled side by side          *)
(* (..._u64 and ..._pb).                                                   *)
(*                                                                         *)
(* Scaling.  u64 is modelled as an unsigned integer of WordBits bits and   *)
(* the register bank as the first MAX_REGS primes, with WordBits and       *)
(* MAX_REGS far below the program's 64 and 1000 (src/src/lib.rs:12).       *)
(* Every operation on a u64 keeps the width: a result that does not fit    *)
(* either panics (a build with overflow checks, the debug profile) or      *)
(* wraps modulo 2^WordBits (the release profile); overflow_checks is the   *)
(* profile of the build.  The u32 exponents of a PrimeBasis are modelled   *)
(* as naturals: the constructors produce exponents below WordBits and a    *)
(* run adds at most that much per step, so within MaxSteps steps no        *)
(* exponent comes near 2^32.                                               *)
(***************************************************************************)
EXTENDS Integers, Sequences, FiniteSets, TLC

VARIABLES
    overflow_checks,  \* the build profile: TRUE = arithmetic overflow panics
    a, b,             \* native inputs of the PrimeBasis operations
    f_num, f_denom,   \* native numerator and denominator of a Fraction
    f_input,          \* native input of Fraction::exec
    res,              \* what the last operation applied returned
    src_fracs,        \* the program as the caller writes it: native <<num, denom>> pairs
    src_input,        \* the native input of the run
    prog,             \* per number type: the Program<T> built from src_fracs
    ev,               \* per number type: the Evaluator<T> of the run
    last_call,        \* per number type: the last next() call, before and after
    consumer          \* per number type: who drives the Evaluator, and its outcome

pure_vars == <<overflow_checks, a, b, f_num, f_denom, f_input, res>>
eval_vars == <<src_fracs, src_input, prog, ev, last_call, consumer>>
vars == <<overflow_checks, a, b, f_num, f_denom, f_input, res,
          src_fracs, src_input, prog, ev, last_call, consumer>>

---------------------------------------------------------------------------
(* Bounds *)

\* Number of registers (src/src/lib.rs:12 sets 1000; scaled down).
MAX_REGS == 3

\* Width of the native unsigned integer (u64 in the code; scaled down).
WordBits == 4

RECURSIVE Pow2(_)
Pow2(k) == IF k = 0 THEN 1 ELSE 2 * Pow2(k - 1)

\* One more than the largest native value (u64::MAX + 1).
Modulus == Pow2(WordBits)

\* The native values.
U64 == 0 .. (Modulus - 1)

Min(m, n) == IF m <= n THEN m ELSE n
Max(m, n) == IF m >= n THEN m ELSE n

---------------------------------------------------------------------------
(* src/src/math.rs: first_n_primes *)

\* floor(n * (ln n + ln ln n)) for the n >= 6 the model can be run with.
NLogNBound(n) ==
    CASE n = 6 -> 14 [] n = 7 -> 18 [] n = 8 -> 22 [] n = 9 -> 26
      [] n = 10 -> 31 [] n = 11 -> 35 [] OTHER -> 40

\* let max_prime = if n < 6 { 11 } else { floor(n (ln n + ln ln n)) }
max_prime(n) == IF n < 6 THEN 11 ELSE NLogNBound(n)

\* while curr_mult <= max_prime { primes[curr_mult] = false; curr_mult += i }
RECURSIVE MarkMultiples(_, _, _, _)
MarkMultiples(primes, i, curr_mult, mp) ==
    IF curr_mult <= mp
    THEN MarkMultiples([primes EXCEPT ![curr_mult] = FALSE], i, curr_mult + i, mp)
    ELSE primes

\* for i in 2..=max_prime { if primes[i] { mark the multiples of i from 2i } }
RECURSIVE SieveLoop(_, _, _)
SieveLoop(primes, i, mp) ==
    IF i > mp THEN primes
    ELSE SieveLoop(IF primes[i] THEN MarkMultiples(primes, i, i * 2, mp)
                   ELSE primes,
                   i + 1, mp)

\* .enumerate().filter(is_p).map(i).take(n)
RECURSIVE TakePrimes(_, _, _, _, _)
TakePrimes(primes, i, mp, n, acc) ==
    IF i > mp \/ Len(acc) >= n THEN acc
    ELSE TakePrimes(primes, i + 1, mp, n,
                    IF primes[i] THEN Append(acc, i) ELSE acc)

first_n_primes(n) ==
    LET mp == max_prime(n)
        start == [i \in 0 .. mp |-> i >= 2]
    IN TakePrimes(SieveLoop(start, 2, mp), 0, mp, n, <<>>)

\* src/src/lib.rs: the list of the first MAX_REGS primes.
PRIMES == first_n_primes(MAX_REGS)

---------------------------------------------------------------------------
(* u64 arithmetic, at the model's width *)

\* The outcome "the thread panicked", where a u64 was expected.
PANIC == -1

\* u64 * u64: overflow panics with overflow checks and wraps without.
mul_u64(l, r) ==
    IF l = PANIC \/ r = PANIC THEN PANIC
    ELSE IF l * r < Modulus THEN l * r
    ELSE IF overflow_checks THEN PANIC
    ELSE (l * r) % Modulus

\* u64 / u64: division by zero panics in every build.
div_u64(l, r) ==
    IF l = PANIC \/ r = PANIC \/ r = 0 THEN PANIC ELSE l \div r

\* u64::pow: exp multiplications by the base, each at the width.
RECURSIVE pow_u64(_, _)
pow_u64(base, exp) ==
    IF exp = 0 THEN 1 ELSE mul_u64(pow_u64(base, exp - 1), base)

\* impl<T> Divides for T (u64): (*rhs % *self).into() == 0.  The outcomes are
\* "true", "false" and "panic" (self = 0: remainder by zero).
divides_u64(self, rhs) ==
    IF self = PANIC \/ rhs = PANIC \/ self = 0 THEN "panic"
    ELSE IF rhs % self = 0 THEN "true" ELSE "false"

---------------------------------------------------------------------------
(* src/src/primebasis.rs: PrimeBasis.  A PrimeBasis is its exps vector, a   *)
(* sequence of naturals.                                                   *)

\* while curr % prime == 0 { curr /= prime; exp += 1; }
RECURSIVE DivideOut(_, _, _)
DivideOut(curr, prime, exp) ==
    IF curr % prime = 0 THEN DivideOut(curr \div prime, prime, exp + 1)
    ELSE [curr |-> curr, exp |-> exp]

Ok(exps) == [tag |-> "Ok", exps |-> exps, val |-> 0]
Err(kind, val) == [tag |-> kind, exps |-> <<>>, val |-> val]

\* for prime in &*PRIMES { if curr == 1 { return Ok }; divide out; push }
\* and, once the list is exhausted, Err(RegisterOverflow(num)).
RECURSIVE try_new_loop(_, _, _, _)
try_new_loop(num, i, curr, exps) ==
    IF i > Len(PRIMES) THEN Err("RegisterOverflow", num)
    ELSE IF curr = 1 THEN Ok(exps)
    ELSE LET d == DivideOut(curr, PRIMES[i], 0)
         IN try_new_loop(num, i + 1, d.curr, Append(exps, d.exp))

\* The same loop reporting the residual quotient instead of the input.
RECURSIVE try_new_loop_residual(_, _, _, _)
try_new_loop_residual(num, i, curr, exps) ==
    IF i > Len(PRIMES) THEN Err("RegisterOverflow", curr)
    ELSE IF curr = 1 THEN Ok(exps)
    ELSE LET d == DivideOut(curr, PRIMES[i], 0)
         IN try_new_loop_residual(num, i + 1, d.curr, Append(exps, d.exp))

try_new_residual(num) ==
    IF num = 0 THEN Err("NumIsZero", 0) ELSE try_new_loop_residual(num, 1, num, <<>>)

\* PrimeBasis::try_new
try_new(num) ==
    IF num = 0 THEN Err("NumIsZero", 0) ELSE try_new_loop(num, 1, num, <<>>)

\* self.exps.iter().zip(&*PRIMES).fold(1, |acc, (&exp, p)| acc * p.pow(exp))
RECURSIVE value_fold(_, _, _)
value_fold(exps, i, acc) ==
    IF i > Min(Len(exps), Len(PRIMES)) THEN acc
    ELSE value_fold(exps, i + 1, mul_u64(acc, pow_u64(PRIMES[i], exps[i])))

\* PrimeBasis::value, and Into<u64> for PrimeBasis
value(exps) == value_fold(exps, 1, 1)

\* impl Mul for PrimeBasis: zip_longest(..).map(|pair| pair.reduce(|a, b| a + b)),
\* that is a + b on Both and the element itself on Left and on Right.
mul_pb(l, r) ==
    [i \in 1 .. Max(Len(l), Len(r)) |->
        IF i <= Len(l) /\ i <= Len(r) THEN l[i] + r[i]
        ELSE IF i <= Len(l) THEN l[i] ELSE r[i]]

\* impl Divides for PrimeBasis: Left(a) => a == 0, Right(_) => true,
\* Both(a, b) => a <= b.
divides_pb(self, rhs) ==
    \A i \in 1 .. Max(Len(self), Len(rhs)) :
        IF i <= Len(self) /\ i <= Len(rhs) THEN self[i] <= rhs[i]
        ELSE IF i <= Len(self) THEN self[i] = 0
        ELSE TRUE

\* The outcome "the thread panicked", where a PrimeBasis was expected.
PANIC_PB == <<-1>>

\* impl Div for PrimeBasis: panics unless rhs divides self.
div_pb(self, rhs) ==
    IF ~divides_pb(rhs, self) THEN PANIC_PB
    ELSE [i \in 1 .. Max(Len(self), Len(rhs)) |->
            IF i <= Len(self) /\ i <= Len(rhs) THEN self[i] - rhs[i]
            ELSE IF i <= Len(self) THEN self[i] ELSE rhs[i]]

---------------------------------------------------------------------------
(* The two instantiations of the generic code, and the objects of a run    *)

Types == {"u64", "pb"}

\* The value a slot of type T holds before anything is stored in it.
Blank(ty) == IF ty = "u64" THEN 0 ELSE <<>>

NoProgram == [st |-> "none", fracs |-> <<>>]
NoEvaluator(ty) ==
    [st |-> "none", program |-> <<>>, curr_state |-> Blank(ty), finished |-> FALSE]
NoReturn(ty) == [tag |-> "-", val |-> Blank(ty)]
NoCall(ty) ==
    [calls |-> 0, before |-> NoEvaluator(ty), ret |-> NoReturn(ty), idx |-> 0]
NoConsumer(ty) ==
    [kind |-> "none", last |-> [tag |-> "None", val |-> Blank(ty)],
     out |-> NoReturn(ty)]

\* No program has been built and nothing runs.
NoRun ==
    /\ src_fracs = <<>>
    /\ src_input = 1
    /\ prog = [ty \in Types |-> NoProgram]
    /\ ev = [ty \in Types |-> NoEvaluator(ty)]
    /\ last_call = [ty \in Types |-> NoCall(ty)]
    /\ consumer = [ty \in Types |-> NoConsumer(ty)]

---------------------------------------------------------------------------
(* The PrimeBasis operations applied to native inputs a and b, as the      *)
(* tests of src/src/primebasis.rs apply them.                              *)

NoRes == [op |-> "none", tag |-> "", exps |-> <<>>, val |-> 0, flag |-> FALSE]

InitArith ==
    /\ overflow_checks \in BOOLEAN
    /\ a \in U64
    /\ b \in U64
    /\ f_num = 1 /\ f_denom = 1 /\ f_input = 1
    /\ res = NoRes
    /\ NoRun

\* PrimeBasis::try_new(a)
DoTryNew ==
    /\ res' = [NoRes EXCEPT !.op = "try_new", !.tag = try_new(a).tag,
                            !.exps = try_new(a).exps, !.val = try_new(a).val]
    /\ UNCHANGED <<overflow_checks, a, b, f_num, f_denom, f_input>>
    /\ UNCHANGED eval_vars

\* let converted: u64 = PrimeBasis::try_from(a)?.into()
DoRoundTrip ==
    /\ res' = LET r == try_new(a) IN
              IF r.tag = "Ok"
              THEN [NoRes EXCEPT !.op = "roundtrip", !.tag = "Ok",
                                 !.exps = r.exps, !.val = value(r.exps)]
              ELSE [NoRes EXCEPT !.op = "roundtrip", !.tag = r.tag, !.val = r.val]
    /\ UNCHANGED <<overflow_checks, a, b, f_num, f_denom, f_input>>
    /\ UNCHANGED eval_vars

\* (PrimeBasis::try_new(a).unwrap() * PrimeBasis::try_new(b).unwrap()).into():
\* an Err of try_new makes its unwrap panic.
DoMul ==
    /\ res' = IF try_new(a).tag = "Ok" /\ try_new(b).tag = "Ok"
              THEN LET p == mul_pb(try_new(a).exps, try_new(b).exps) IN
                   [NoRes EXCEPT !.op = "mul", !.tag = "Ok", !.exps = p,
                                 !.val = value(p)]
              ELSE [NoRes EXCEPT !.op = "mul", !.tag = "Panic"]
    /\ UNCHANGED <<overflow_checks, a, b, f_num, f_denom, f_input>>
    /\ UNCHANGED eval_vars

\* PrimeBasis::try_new(a).unwrap().divides(&PrimeBasis::try_new(b).unwrap())
DoDivides ==
    /\ res' = IF try_new(a).tag = "Ok" /\ try_new(b).tag = "Ok"
              THEN [NoRes EXCEPT !.op = "divides", !.tag = "Ok",
                       !.flag = divides_pb(try_new(a).exps, try_new(b).exps)]
              ELSE [NoRes EXCEPT !.op = "divides", !.tag = "Panic"]
    /\ UNCHANGED <<overflow_checks, a, b, f_num, f_denom, f_input>>
    /\ UNCHANGED eval_vars

NextArith == DoTryNew \/ DoRoundTrip \/ DoMul \/ DoDivides

SpecArith == InitArith /\ [][NextArith]_vars

---------------------------------------------------------------------------
(* Arithmetic the claims are stated against, defined without the code's    *)
(* loops.                                                                  *)

IsPrime(p) == p >= 2 /\ \A d \in 2 .. (p - 1) : p % d # 0

PrimeFactors(n) == {p \in 2 .. n : IsPrime(p) /\ n % p = 0}

\* The primes of the register bank, and the largest of them.
PrimeSet == {PRIMES[i] : i \in 1 .. Len(PRIMES)}
LastPrime == PRIMES[Len(PRIMES)]

\* n is representable within the register bound: every prime factor of n is
\* one of the first MAX_REGS primes.
Representable(n) == n >= 1 /\ PrimeFactors(n) \subseteq PrimeSet

\* The exponent at position i, a missing position counting as 0.
ExpAt(exps, i) == IF i <= Len(exps) THEN exps[i] ELSE 0

ExpsA == try_new(a).exps
ExpsB == try_new(b).exps

---------------------------------------------------------------------------
(* Claims about PrimeBasis, under SpecArith *)

\* C3 (as claimed): for every native n >= 1 whose prime factors are all among
\* the first MAX_REGS primes (the MAX_REGS-th included), try_new(n) succeeds
\* and value()/into() of the result is n.
C3_RoundTrip ==
    (res.op = "roundtrip" /\ Representable(a))
        => (res.tag = "Ok" /\ res.val = a)

\* What holds of the code instead: the round trip is exact wherever try_new
\* succeeds, and try_new succeeds exactly when every prime factor is among
\* the first MAX_REGS - 1 primes.
RoundTripWhereOk ==
    res.op = "roundtrip" =>
        /\ res.tag = "Ok" => res.val = a
        /\ res.tag = "Ok" <=> (a >= 1 /\ \A p \in PrimeFactors(a) : p < LastPrime)

\* C4 (as claimed): for all representable a, b >= 1,
\* try_new(a).divides(&try_new(b)) is true exactly when b % a = 0.
C4_DividesConsistent ==
    (res.op = "divides" /\ Representable(a) /\ Representable(b)) =>
        /\ res.tag = "Ok"
        /\ res.flag <=> (b % a = 0)

\* What holds of the code instead: on all a, b that try_new accepts, divides
\* is true exactly when b % a = 0, which is the comparison of the exponents
\* position by position with a missing position counting as exponent 0 on
\* either side; a or b with the MAX_REGS-th prime as a factor is rejected by
\* try_new before divides is reached.
DividesWhereOk ==
    res.op = "divides" =>
        /\ res.tag = "Ok" <=> (try_new(a).tag = "Ok" /\ try_new(b).tag = "Ok")
        /\ res.tag = "Ok" =>
              /\ res.flag <=> (b % a = 0)
              /\ res.flag <=>
                    \A i \in 1 .. MAX_REGS : ExpAt(ExpsA, i) <= ExpAt(ExpsB, i)

\* C5 (as claimed): for all representable a, b with a * b representable too,
\* (try_new(a) * try_new(b)).value() is a * b, the product's exponent vector
\* is the elementwise sum with missing positions counting as 0, and its
\* length is the longer input's.
C5_MulHomomorphism ==
    (/\ res.op = "mul"
     /\ Representable(a) /\ Representable(b)
     /\ a * b < Modulus) =>
        /\ res.tag = "Ok"
        /\ res.val = a * b
        /\ Len(res.exps) = Max(Len(ExpsA), Len(ExpsB))
        /\ \A i \in 1 .. MAX_REGS :
              ExpAt(res.exps, i) = ExpAt(ExpsA, i) + ExpAt(ExpsB, i)

\* What holds of the code instead: the same, on all a, b that try_new accepts.
MulWhereOk ==
    res.op = "mul" =>
        /\ res.tag = "Ok" <=> (try_new(a).tag = "Ok" /\ try_new(b).tag = "Ok")
        /\ (res.tag = "Ok" /\ a * b < Modulus) =>
              /\ res.val = a * b
              /\ Len(res.exps) = Max(Len(ExpsA), Len(ExpsB))
              /\ \A i \in 1 .. MAX_REGS :
                    ExpAt(res.exps, i) = ExpAt(ExpsA, i) + ExpAt(ExpsB, i)

\* C6: try_new(0) fails with NumIsZero, and try_new(n) for n >= 1 with a prime
\* factor larger than the MAX_REGS-th prime fails with RegisterOverflow
\* carrying n itself, not the residual quotient; neither is an Ok value.
C6_OverflowBoundary ==
    res.op = "try_new" =>
        /\ a = 0 => (res.tag = "NumIsZero")
        /\ (a >= 1 /\ \E p \in PrimeFactors(a) : p > LastPrime)
              => (res.tag = "RegisterOverflow" /\ res.val = a)

\* C6's case: an input with a small prime factor and one beyond the register
\* bank, so that the residual quotient differs from the input.
C6_Witness ==
    /\ res.op = "try_new"
    /\ \E p \in PrimeFactors(a) : p > LastPrime /\ p < a
    /\ res.tag = "RegisterOverflow"
    /\ res.val = a

---------------------------------------------------------------------------
(* src/src/frac.rs: Fraction<T> and its single operation.  A Fraction is   *)
(* the record of its num and denom; a StepResult is the record of its      *)
(* variant and the value it carries, the variant "Panic" standing for a    *)
(* call that panicked.                                                     *)

Fraction(num, denom) == [num |-> num, denom |-> denom]

\* Fraction::new panics when num.into() == 0 or denom.into() == 0.
new_panics_u64(num, denom) == num = 0 \/ denom = 0
new_panics_pb(num, denom) ==
    value(num) \in {0, PANIC} \/ value(denom) \in {0, PANIC}

Changed(v) == [tag |-> "Changed", val |-> v]
Unchanged(v) == [tag |-> "Unchanged", val |-> v]

\* Fraction::<u64>::exec
exec_u64(self, input) ==
    LET new_num == mul_u64(input, self.num)
        d == divides_u64(self.denom, new_num)
    IN IF d = "panic" THEN [tag |-> "Panic", val |-> PANIC]
       ELSE IF d = "true" THEN Changed(div_u64(new_num, self.denom))
       ELSE Unchanged(input)

\* exec without its divisibility test: the product is divided whatever the
\* denominator.
exec_pb_unguarded(self, input) ==
    LET q == div_pb(mul_pb(input, self.num), self.denom)
    IN IF q = PANIC_PB THEN [tag |-> "Panic", val |-> PANIC_PB]
       ELSE Changed(q)

\* Fraction::<PrimeBasis>::exec
exec_pb(self, input) ==
    LET new_num == mul_pb(input, self.num)
    IN IF divides_pb(self.denom, new_num)
       THEN LET q == div_pb(new_num, self.denom)
            IN IF q = PANIC_PB THEN [tag |-> "Panic", val |-> PANIC_PB]
               ELSE Changed(q)
       ELSE Unchanged(input)

---------------------------------------------------------------------------
(* Fraction::exec applied to native inputs, as test_exec applies it, for   *)
(* both number types.                                                      *)

InitFrac ==
    /\ overflow_checks \in BOOLEAN
    /\ a = 1 /\ b = 1
    /\ f_num \in U64
    /\ f_denom \in U64
    /\ f_input \in U64
    /\ res = NoRes
    /\ NoRun

\* Fraction::new(f_num, f_denom) with a zero: the constructor panics.
DoNewPanics ==
    /\ new_panics_u64(f_num, f_denom)
    /\ res' = [NoRes EXCEPT !.op = "new", !.tag = "Panic"]
    /\ UNCHANGED <<overflow_checks, a, b, f_num, f_denom, f_input>>
    /\ UNCHANGED eval_vars

\* Fraction::new(f_num, f_denom).exec(f_input) on u64
DoExecU64 ==
    /\ ~new_panics_u64(f_num, f_denom)
    /\ res' = LET r == exec_u64(Fraction(f_num, f_denom), f_input) IN
              [NoRes EXCEPT !.op = "exec_u64", !.tag = r.tag, !.val = r.val]
    /\ UNCHANGED <<overflow_checks, a, b, f_num, f_denom, f_input>>
    /\ UNCHANGED eval_vars

\* The same on PrimeBasis, each number built with try_new(..).unwrap(); the
\* result is recorded with its exponents and its value().
DoExecPB ==
    /\ try_new(f_num).tag = "Ok"
    /\ try_new(f_denom).tag = "Ok"
    /\ try_new(f_input).tag = "Ok"
    /\ ~new_panics_pb(try_new(f_num).exps, try_new(f_denom).exps)
    /\ res' = LET r == exec_pb(Fraction(try_new(f_num).exps, try_new(f_denom).exps),
                               try_new(f_input).exps) IN
              IF r.tag = "Panic" THEN [NoRes EXCEPT !.op = "exec_pb", !.tag = r.tag]
              ELSE [NoRes EXCEPT !.op = "exec_pb", !.tag = r.tag,
                                 !.exps = r.val, !.val = value(r.val)]
    /\ UNCHANGED <<overflow_checks, a, b, f_num, f_denom, f_input>>
    /\ UNCHANGED eval_vars

NextFrac == DoNewPanics \/ DoExecU64 \/ DoExecPB

SpecFrac == InitFrac /\ [][NextFrac]_vars

---------------------------------------------------------------------------
(* Claims about Fraction::exec, under SpecFrac *)

\* The step of the specification on the mathematical integers.
StepOf(num, denom, n) ==
    IF (n * num) % denom = 0 THEN Changed((n * num) \div denom)
    ELSE Unchanged(n)

\* C2 (as claimed): for every Fraction(num, denom) and every input n, exec(n)
\* returns Changed(n*num/denom) when denom divides n*num and Unchanged(n), the
\* input itself, otherwise.  The claim is read in its favour: only the inputs
\* whose claimed result is itself a native value are held against it.
C2_StepSemantics ==
    (/\ res.op \in {"exec_u64", "exec_pb"}
     /\ StepOf(f_num, f_denom, f_input).val < Modulus) =>
        /\ res.tag = StepOf(f_num, f_denom, f_input).tag
        /\ res.val = StepOf(f_num, f_denom, f_input).val

\* What holds of the code instead: exec on u64 is the specification's step
\* whenever the product n * num fits the native integer.
ExecU64WithinRange ==
    (res.op = "exec_u64" /\ f_input * f_num < Modulus) =>
        /\ res.tag = StepOf(f_num, f_denom, f_input).tag
        /\ res.val = StepOf(f_num, f_denom, f_input).val

\* And exec on PrimeBasis is the specification's step on every input: the
\* variant is right, and the exponents are those of the result (its value()
\* is the result when that fits the native integer).
ExecPBExact ==
    res.op = "exec_pb" =>
        LET want == StepOf(f_num, f_denom, f_input) IN
        /\ res.tag = want.tag
        /\ want.val < Modulus => res.val = want.val
        /\ \A i \in 1 .. MAX_REGS :
              ExpAt(res.exps, i) =
                  IF want.tag = "Changed"
                  THEN ExpAt(try_new(f_input).exps, i) + ExpAt(try_new(f_num).exps, i)
                       - ExpAt(try_new(f_denom).exps, i)
                  ELSE ExpAt(try_new(f_input).exps, i)

---------------------------------------------------------------------------
(* src/src/program.rs: Program<T> and Evaluator<T> *)

\* The longest program of a run.
MaxFracs == 2

\* The most next() calls made on one Evaluator.
MaxSteps == 3

\* The fractions programs are written with, as native <<num, denom>> pairs.
FracSet == {<<1, 2>>, <<3, 2>>, <<2, 3>>, <<5, 5>>}

Programs == UNION {[1 .. n -> FracSet] : n \in 0 .. MaxFracs}

exec(ty, frac, input) ==
    IF ty = "u64" THEN exec_u64(frac, input) ELSE exec_pb(frac, input)

\* Whether the caller can build src_fracs as a Vec<Fraction<T>> without a
\* panic: Fraction::new on every pair, after try_new(..).unwrap() on every
\* number for PrimeBasis (make_program, test_readme_primes_2e).
CanBuild(ty) ==
    \A i \in 1 .. Len(src_fracs) :
        IF ty = "u64" THEN ~new_panics_u64(src_fracs[i][1], src_fracs[i][2])
        ELSE /\ try_new(src_fracs[i][1]).tag = "Ok"
             /\ try_new(src_fracs[i][2]).tag = "Ok"
             /\ ~new_panics_pb(try_new(src_fracs[i][1]).exps,
                               try_new(src_fracs[i][2]).exps)

BuiltFracs(ty) ==
    [i \in 1 .. Len(src_fracs) |->
        IF ty = "u64" THEN Fraction(src_fracs[i][1], src_fracs[i][2])
        ELSE Fraction(try_new(src_fracs[i][1]).exps, try_new(src_fracs[i][2]).exps)]

\* The input of the run as a T: the native input itself, or
\* PrimeBasis::try_new(input).unwrap().
InputOk(ty) == ty = "u64" \/ try_new(src_input).tag = "Ok"
InputAs(ty) == IF ty = "u64" THEN src_input ELSE try_new(src_input).exps

\* Program::new: Program { fracs }, whatever the list.
program_new(fracs) == [st |-> "built", fracs |-> fracs]

\* Evaluator::new: panics if the program is empty.
evaluator_new(ty, program, input) ==
    IF Len(program) = 0 THEN [NoEvaluator(ty) EXCEPT !.st = "panicked"]
    ELSE [st |-> "live", program |-> program, curr_state |-> input,
          finished |-> FALSE]

\* The loop of next() without its return: every fraction that applies is
\* applied in turn.
RECURSIVE scan_all(_, _, _, _, _)
scan_all(ty, program, i, curr, hit) ==
    IF i > Len(program)
    THEN IF hit = 0 THEN [tag |-> "None", idx |-> 0, val |-> curr]
         ELSE [tag |-> "Some", idx |-> hit, val |-> curr]
    ELSE LET r == exec(ty, program[i], curr)
         IN IF r.tag = "Panic" THEN [tag |-> "Panic", idx |-> i, val |-> curr]
            ELSE IF r.tag = "Changed" THEN scan_all(ty, program, i + 1, r.val, i)
            ELSE scan_all(ty, program, i + 1, curr, hit)

scan_every(ty, program, i, curr) == scan_all(ty, program, i, curr, 0)

\* for frac in self.program.clone() {
\*     if let Changed(new_state) = frac.exec(self.curr_state.clone()) { .. return Some }
\* }
RECURSIVE scan(_, _, _, _)
scan(ty, program, i, curr) ==
    IF i > Len(program) THEN [tag |-> "None", idx |-> 0, val |-> curr]
    ELSE LET r == exec(ty, program[i], curr)
         IN IF r.tag = "Panic" THEN [tag |-> "Panic", idx |-> i, val |-> curr]
            ELSE IF r.tag = "Changed" THEN [tag |-> "Some", idx |-> i, val |-> r.val]
            ELSE scan(ty, program, i + 1, curr)

Some(v) == [tag |-> "Some", val |-> v]
None(ty) == [tag |-> "None", val |-> Blank(ty)]
Panicked(ty) == [tag |-> "Panic", val |-> Blank(ty)]

\* next() with a finished Evaluator repeating its state instead of None.
evaluator_next_repeat(ty, e) ==
    IF e.finished
    THEN [ev |-> e, ret |-> Some(e.curr_state), idx |-> 0]
    ELSE LET s == scan(ty, e.program, 1, e.curr_state)
         IN CASE s.tag = "Some" ->
                   [ev |-> [e EXCEPT !.curr_state = s.val], ret |-> Some(s.val),
                    idx |-> s.idx]
              [] s.tag = "None" ->
                   [ev |-> [e EXCEPT !.finished = TRUE], ret |-> None(ty), idx |-> 0]
              [] OTHER ->
                   [ev |-> [e EXCEPT !.st = "panicked"], ret |-> Panicked(ty),
                    idx |-> s.idx]

\* Iterator::next for Evaluator: the Evaluator after the call, what the call
\* returned, and the index of the fraction it applied (0: none).
evaluator_next(ty, e) ==
    IF e.finished
    THEN [ev |-> e, ret |-> None(ty), idx |-> 0]
    ELSE LET s == scan(ty, e.program, 1, e.curr_state)
         IN CASE s.tag = "Some" ->
                   [ev |-> [e EXCEPT !.curr_state = s.val], ret |-> Some(s.val),
                    idx |-> s.idx]
              [] s.tag = "None" ->
                   [ev |-> [e EXCEPT !.finished = TRUE], ret |-> None(ty), idx |-> 0]
              [] OTHER ->
                   [ev |-> [e EXCEPT !.st = "panicked"], ret |-> Panicked(ty),
                    idx |-> s.idx]

---------------------------------------------------------------------------
(* A run: the caller writes a program and an input, builds the Program for *)
(* either number type, and runs it lazily or to completion.                *)

Init ==
    /\ overflow_checks \in BOOLEAN
    /\ a = 1 /\ b = 1
    /\ f_num = 1 /\ f_denom = 1 /\ f_input = 1
    /\ res = NoRes
    /\ src_fracs \in Programs
    /\ src_input \in U64
    /\ prog = [ty \in Types |-> NoProgram]
    /\ ev = [ty \in Types |-> NoEvaluator(ty)]
    /\ last_call = [ty \in Types |-> NoCall(ty)]
    /\ consumer = [ty \in Types |-> NoConsumer(ty)]

\* Program::new(fracs), the fractions built first.
ProgramNew(ty) ==
    /\ prog[ty].st = "none"
    /\ prog' = [prog EXCEPT ![ty] =
                  IF CanBuild(ty) THEN program_new(BuiltFracs(ty))
                  ELSE [NoProgram EXCEPT !.st = "panicked"]]
    /\ UNCHANGED <<src_fracs, src_input, ev, last_call, consumer>>
    /\ UNCHANGED pure_vars

\* What taking the Program does, for either consumer: the caller converts
\* the input (a panic of its unwrap ends it) and Evaluator::new(self.fracs,
\* input) builds the Evaluator or panics.
started(ty, kind) ==
    IF InputOk(ty)
    THEN LET e == evaluator_new(ty, prog[ty].fracs, InputAs(ty)) IN
         [ev |-> e,
          consumer |-> [NoConsumer(ty) EXCEPT
                           !.kind = kind,
                           !.out = IF e.st = "panicked" THEN Panicked(ty)
                                   ELSE NoReturn(ty)]]
    ELSE [ev |-> ev[ty],
          consumer |-> [NoConsumer(ty) EXCEPT !.kind = kind, !.out = Panicked(ty)]]

\* Program::lazy_exec(input)
LazyExec(ty) ==
    /\ prog[ty].st = "built"
    /\ consumer[ty].kind = "none"
    /\ ev' = [ev EXCEPT ![ty] = started(ty, "lazy").ev]
    /\ consumer' = [consumer EXCEPT ![ty] = started(ty, "lazy").consumer]
    /\ UNCHANGED <<src_fracs, src_input, prog, last_call>>
    /\ UNCHANGED pure_vars

\* Program::exec_to_completion(input), up to its first next() call
ExecToCompletion(ty) ==
    /\ prog[ty].st = "built"
    /\ consumer[ty].kind = "none"
    /\ ev' = [ev EXCEPT ![ty] = started(ty, "last").ev]
    /\ consumer' = [consumer EXCEPT ![ty] = started(ty, "last").consumer]
    /\ UNCHANGED <<src_fracs, src_input, prog, last_call>>
    /\ UNCHANGED pure_vars

\* One next() call by the holder of the lazy iterator.
ConsumerNext(ty) ==
    /\ consumer[ty].kind = "lazy"
    /\ ev[ty].st = "live"
    /\ last_call[ty].calls < MaxSteps
    /\ LET r == evaluator_next(ty, ev[ty]) IN
       /\ ev' = [ev EXCEPT ![ty] = r.ev]
       /\ last_call' = [last_call EXCEPT ![ty] =
              [calls |-> last_call[ty].calls + 1, before |-> ev[ty],
               ret |-> r.ret, idx |-> r.idx]]
       /\ consumer' = [consumer EXCEPT ![ty].out =
              IF r.ret.tag = "Panic" THEN Panicked(ty) ELSE consumer[ty].out]
    /\ UNCHANGED <<src_fracs, src_input, prog>>
    /\ UNCHANGED pure_vars

\* One turn of .last() inside exec_to_completion: a next() call; Some(x) is
\* kept as the last item, and None ends the loop with .unwrap() of the last
\* item kept.
LastStep(ty) ==
    /\ consumer[ty].kind = "last"
    /\ consumer[ty].out.tag = "-"
    /\ ev[ty].st = "live"
    /\ last_call[ty].calls < MaxSteps
    /\ LET r == evaluator_next(ty, ev[ty]) IN
       /\ ev' = [ev EXCEPT ![ty] = r.ev]
       /\ last_call' = [last_call EXCEPT ![ty] =
              [calls |-> last_call[ty].calls + 1, before |-> ev[ty],
               ret |-> r.ret, idx |-> r.idx]]
       /\ consumer' = [consumer EXCEPT ![ty] =
              CASE r.ret.tag = "Some" -> [consumer[ty] EXCEPT !.last = r.ret]
                [] r.ret.tag = "None" ->
                     [consumer[ty] EXCEPT !.out =
                         IF consumer[ty].last.tag = "Some"
                         THEN [tag |-> "Returned", val |-> consumer[ty].last.val]
                         ELSE Panicked(ty)]
                [] OTHER -> [consumer[ty] EXCEPT !.out = Panicked(ty)]]
    /\ UNCHANGED <<src_fracs, src_input, prog>>
    /\ UNCHANGED pure_vars

Next ==
    \E ty \in Types :
        \/ ProgramNew(ty)
        \/ LazyExec(ty)
        \/ ExecToCompletion(ty)
        \/ ConsumerNext(ty)
        \/ LastStep(ty)

Spec == Init /\ [][Next]_vars

---------------------------------------------------------------------------
(* Claims about Program and Evaluator, under Spec *)

\* The indices of the fractions of program P that apply to state s.
Applicable(ty, P, s) == {i \in 1 .. Len(P) : exec(ty, P[i], s).tag = "Changed"}

FirstOf(S) == CHOOSE i \in S : \A j \in S : i <= j

\* The fractions of P whose exec panics on s (an overflow of the product in
\* a build with overflow checks).
Panicking(ty, P, s) == {i \in 1 .. Len(P) : exec(ty, P[i], s).tag = "Panic"}

\* C1: a next() call on a Running Evaluator scans the fractions in list order
\* and applies exactly the first one whose exec returns Changed: its result is
\* the new curr_state and the Some(state) returned, the Evaluator stays
\* Running and no later fraction is applied.  The Evaluator becomes Halted
\* (finished, None returned, curr_state kept) if and only if every fraction
\* returns Unchanged for curr_state.  (A call in which an exec panics before
\* any fraction has returned Changed applies nothing and halts nothing.)
C1_TransitionRule ==
    \A ty \in Types :
        LET c == last_call[ty]
            P == c.before.program
            s == c.before.curr_state
            Ch == Applicable(ty, P, s)
            Pn == Panicking(ty, P, s)
        IN (c.calls > 0 /\ ~c.before.finished) =>
            /\ ev[ty].program = P
            /\ ev[ty].finished <=> (Ch = {} /\ Pn = {})
            /\ IF Ch = {} /\ Pn = {}
               THEN /\ c.ret = None(ty)
                    /\ c.idx = 0
                    /\ ev[ty].curr_state = s
               ELSE IF FirstOf(Ch \cup Pn) \in Ch
               THEN /\ c.idx = FirstOf(Ch)
                    /\ c.ret = Some(exec(ty, P[FirstOf(Ch)], s).val)
                    /\ ev[ty].curr_state = c.ret.val
                    /\ ev[ty].st = "live"
               ELSE /\ c.ret.tag = "Panic"
                    /\ ev[ty].curr_state = s

\* C1's case: the first fraction is applied although the second applies too
\* and would have given another state.
C1_Witness ==
    \E ty \in Types :
        LET c == last_call[ty]
            P == c.before.program
            s == c.before.curr_state
        IN /\ c.calls > 0
           /\ Len(P) = 2
           /\ c.idx = 1
           /\ exec(ty, P[2], s).tag = "Changed"
           /\ exec(ty, P[2], s).val # c.ret.val
           /\ exec(ty, P[2], c.ret.val).tag = "Changed"

\* C7 (as claimed): exec_to_completion on a nonempty program and an initial
\* state on which the program halts returns the final state of the run, a
\* state on which no fraction of the program applies.
C7_RunToCompletion ==
    \A ty \in Types :
        (consumer[ty].kind = "last" /\ ev[ty].st = "live" /\ ev[ty].finished) =>
            /\ consumer[ty].out = [tag |-> "Returned", val |-> ev[ty].curr_state]
            /\ Applicable(ty, ev[ty].program, ev[ty].curr_state) = {}

\* What holds of the code instead: once the program has halted,
\* exec_to_completion has returned the final state if the run emitted a state,
\* and has panicked (None.unwrap()) if the initial state already was final.
RunToCompletionOutcome ==
    \A ty \in Types :
        (consumer[ty].kind = "last" /\ ev[ty].st = "live" /\ ev[ty].finished) =>
            /\ Applicable(ty, ev[ty].program, ev[ty].curr_state) = {}
            /\ IF last_call[ty].calls > 1
               THEN consumer[ty].out = [tag |-> "Returned", val |-> ev[ty].curr_state]
               ELSE /\ consumer[ty].out = Panicked(ty)
                    /\ ev[ty].curr_state = InputAs(ty)

\* C8: once an Evaluator is Halted (next() has returned None), every further
\* next() call returns None, applies no fraction and leaves curr_state, the
\* fraction list and the finished flag as they were.
C8_HaltedTerminal ==
    \A ty \in Types :
        LET c == last_call[ty] IN
        /\ (c.calls > 0 /\ c.ret.tag = "None") => ev[ty].finished
        /\ (c.calls > 0 /\ c.before.finished) =>
              /\ c.ret = None(ty)
              /\ c.idx = 0
              /\ ev[ty] = c.before

\* C8's case: a next() call made on an Evaluator that had already halted.
C8_Witness ==
    \E ty \in Types :
        /\ last_call[ty].calls > 1
        /\ last_call[ty].before.finished
        /\ last_call[ty].before.st = "live"

\* The value of an exponent vector on the mathematical integers.
RECURSIVE ExactPow(_, _)
ExactPow(base, exp) == IF exp = 0 THEN 1 ELSE base * ExactPow(base, exp - 1)

RECURSIVE ExactValueFrom(_, _)
ExactValueFrom(exps, i) ==
    IF i > Min(Len(exps), Len(PRIMES)) THEN 1
    ELSE ExactPow(PRIMES[i], exps[i]) * ExactValueFrom(exps, i + 1)

ExactValue(exps) == ExactValueFrom(exps, 1)

\* C9 (as claimed): the run of a program on u64 and the run of the same
\* program on PrimeBasis return, call for call, the same native values (the
\* PrimeBasis states through value()) and halt at the same call.  The claim
\* is read in its favour: only the calls at which the PrimeBasis state is a
\* native value before and after are held against it.
C9_CrossRepresentation ==
    LET cu == last_call["u64"]
        cp == last_call["pb"]
    IN (/\ cu.calls = cp.calls
        /\ cu.calls > 0
        /\ ExactValue(cp.before.curr_state) < Modulus
        /\ ExactValue(ev["pb"].curr_state) < Modulus) =>
           /\ cu.ret.tag = cp.ret.tag
           /\ cu.ret.tag = "Some" => cu.ret.val = value(cp.ret.val)

\* C10 (as claimed): a Program always holds a nonempty fraction list, and
\* no Evaluator over an empty fraction list exists or emits a state.
C10_EmptyProgramRejected ==
    \A ty \in Types :
        /\ prog[ty].st = "built" => Len(prog[ty].fracs) > 0
        /\ ev[ty].st = "live" => Len(ev[ty].program) > 0
        /\ last_call[ty].ret.tag = "Some" => Len(last_call[ty].before.program) > 0

\* What holds of the code instead: Program::new accepts the empty list, and
\* it is Evaluator::new, reached through lazy_exec and exec_to_completion,
\* that panics on it; no Evaluator over an empty list exists.
NoEmptyEvaluator ==
    \A ty \in Types :
        /\ ev[ty].st = "live" => Len(ev[ty].program) > 0
        /\ last_call[ty].calls > 0 => Len(last_call[ty].before.program) > 0
        /\ (prog[ty].st = "built" /\ Len(prog[ty].fracs) = 0
                /\ consumer[ty].kind # "none")
              => (ev[ty].st # "live" /\ consumer[ty].out = Panicked(ty))

\* The subtraction of impl Div for PrimeBasis taken alone, as the else branch
\* computes it: zip_longest(..).map(|pair| pair.reduce(|a, b| a - b)), that
\* is a - b on Both and the element itself on Left and on Right.  A negative
\* element is a u32 subtraction that underflowed.
div_reduce(self, rhs) ==
    [i \in 1 .. Max(Len(self), Len(rhs)) |->
        IF i <= Len(self) /\ i <= Len(rhs) THEN self[i] - rhs[i]
        ELSE IF i <= Len(self) THEN self[i] ELSE rhs[i]]

\* C11: non-integral division is unreachable through stepping.  For every
\* Evaluator built from validly constructed fractions and an initial state,
\* and every next() call made on it: on PrimeBasis the call never panics in
\* Div ("Can't divide"); for every fraction of the program whose guard
\* denom.divides(product) is true on the state the call started from, Div's
\* own test rhs.divides(self) passes and no exponent of the subtraction
\* goes below zero; and the state emitted has no negative exponent.  On
\* u64 the fraction applied by a call that emitted a state has a nonzero
\* denominator that divides the product exactly, the emitted state being
\* the exact quotient.
C11_NoNonIntegralDivision ==
    /\ LET c == last_call["pb"] IN
       c.calls > 0 =>
         /\ c.ret.tag # "Panic"
         /\ \A i \in 1 .. Len(c.before.program) :
               LET f == c.before.program[i]
                   product == mul_pb(c.before.curr_state, f.num)
               IN divides_pb(f.denom, product) =>
                     /\ div_pb(product, f.denom) # PANIC_PB
                     /\ \A j \in DOMAIN div_reduce(product, f.denom) :
                           div_reduce(product, f.denom)[j] >= 0
         /\ c.ret.tag = "Some" =>
               /\ \A j \in DOMAIN c.ret.val : c.ret.val[j] >= 0
               /\ exec_pb(c.before.program[c.idx], c.before.curr_state)
                     = Changed(c.ret.val)
               /\ divides_pb(c.before.program[c.idx].denom,
                             mul_pb(c.before.curr_state,
                                    c.before.program[c.idx].num))
    /\ LET c == last_call["u64"] IN
       (c.calls > 0 /\ c.ret.tag = "Some") =>
          LET f == c.before.program[c.idx]
              product == mul_u64(c.before.curr_state, f.num)
          IN /\ product # PANIC
             /\ f.denom # 0
             /\ product % f.denom = 0
             /\ c.ret.val * f.denom = product

\* A PrimeBasis next() call that skipped a fraction whose denominator does
\* not divide the product and then divided by a denominator other than 1,
\* with an exponent actually lowered by the subtraction.
C11_Witness ==
    LET c == last_call["pb"] IN
    /\ c.calls > 0
    /\ c.ret.tag = "Some"
    /\ c.idx > 1
    /\ ~divides_pb(c.before.program[1].denom,
                   mul_pb(c.before.curr_state, c.before.program[1].num))
    /\ LET f == c.before.program[c.idx]
           product == mul_pb(c.before.curr_state, f.num)
       IN /\ \E j \in DOMAIN f.denom : f.denom[j] > 0
          /\ \E j \in DOMAIN c.ret.val : c.ret.val[j] < product[j]

=============================================================================
